---- MODULE Spec2Model ----
(***************************************************************************)
(* Verification model of ok300/lwk:                                        *)
(*   - jade/src/register_multisig.rs: the conversion of a confidential     *)
(*     descriptor to the JadeDescriptor registration record;               *)
(*   - lwk_wollet/tests/test_wollet.rs: the TestWollet harness driving the *)
(*     wallet ledger, the transaction builder and the signing pipeline.    *)
(***************************************************************************)
EXTENDS Integers, Sequences, FiniteSets, TLC

VARIABLES
    desc,       \* the ConfidentialDescriptor<DescriptorPublicKey>: try_from's argument,
                \* and the descriptor of the TestWollet
    result,     \* what try_from did with it: not run yet, Ok(record), Err(()) or a panic
    node_txs,   \* the transactions the network collaborator (TestElectrumServer) holds
    store,      \* the transactions merged into the wallet's ledger by past scans
    next_txid,  \* the id the next transaction gets
    pset,       \* TestWollet's transaction in progress: <<>> or <<the pset>>
    details,    \* the analysis get_details returned for it before any signature
    request,    \* what the harness asked the builder for
    before,     \* the ledger as the harness function found it on entry
    pc,         \* where the harness is: "idle", "built" or "sent"
    last_error, \* the error of the last failed call, "none" after a successful one
    signing,    \* the pset passed between signers and finalize: <<>> or its record
    persisted,  \* the wallet with file persistence and its directory: <<>> or its record
    registration, \* the RegisterMultisigParams being made for the Jade: <<>> or its record
    waiting     \* a wait loop of the harness and the chain it polls: <<>> or its record

vars == <<desc, result, node_txs, store, next_txid, pset, details, request, before, pc,
          last_error, signing, persisted, registration, waiting>>

----------------------------------------------------------------------------
(* Bounds *)

\* longest key list of a multisig policy
MaxKeys == 2

\* transactions created in one run, the node's and the wallet's together
MaxTxs == 3

----------------------------------------------------------------------------
(* Descriptor model: elements_miniscript values as try_from sees them *)

\* byte length of a SLIP-0077 master blinding key
Slip77Len == 32

\* bip32::ChildNumber
Normal(i) == [index |-> i, hardened |-> FALSE]
Hardened(i) == [index |-> i, hardened |-> TRUE]

\* the two extended keys of test::from_desc_to_jade_desc
XKeys == {"tpubA", "tpubB"}

\* ExtendedPubKey::fingerprint(), the values the unit test expects
XKeyFingerprint(x) ==
    IF x = "tpubA" THEN <<146, 26, 57, 253>> ELSE <<195, 206, 35, 178>>

\* fingerprint of a signer's master key, as multisig_desc writes it in the origin
OriginFingerprint == <<115, 197, 218, 10>>

\* hash160 prefix of a single public key
SingleFingerprint == <<2, 171, 205, 239>>

\* Display of a Fingerprint: lower-case hex
FingerprintToString(fp) ==
    CASE fp = <<146, 26, 57, 253>> -> "921a39fd"
      [] fp = <<195, 206, 35, 178>> -> "c3ce23b2"
      [] fp = <<115, 197, 218, 10>> -> "73c5da0a"
      [] OTHER -> "02abcdef"

\* Display of a child index
IndexToString(i) ==
    CASE i = 0 -> "0" [] i = 1 -> "1" [] i = 84 -> "84" [] OTHER -> "n"

\* an origin is absent (<<>>) or one (fingerprint, path) pair
NoOrigin == <<>>
Origin84h ==
    << [fingerprint |-> OriginFingerprint,
        path |-> <<Hardened(84), Hardened(0), Hardened(0)>>] >>

\* DescriptorPublicKey::XPub
XPub(origin, xkey, path, wildcard) ==
    [kind |-> "XPub", origin |-> origin, key |-> xkey,
     paths |-> <<path>>, wildcard |-> wildcard]

\* DescriptorPublicKey::MultiXPub, the <0;1> form
MultiXPub(origin, xkey, paths, wildcard) ==
    [kind |-> "MultiXPub", origin |-> origin, key |-> xkey,
     paths |-> paths, wildcard |-> wildcard]

\* DescriptorPublicKey::Single
SinglePub(origin, pk) ==
    [kind |-> "Single", origin |-> origin, key |-> pk,
     paths |-> << <<>> >>, wildcard |-> "None"]

\* the key forms a parseable descriptor can carry
KeyUniverse ==
    { XPub(NoOrigin, x, <<>>, "Unhardened") : x \in XKeys }
    \cup { XPub(NoOrigin, "tpubA", <<>>, "None"),
           XPub(NoOrigin, "tpubB", <<>>, "Hardened"),
           XPub(Origin84h, "tpubA", <<>>, "Unhardened"),
           XPub(NoOrigin, "tpubB", <<Normal(0)>>, "Unhardened"),
           MultiXPub(Origin84h, "tpubA", << <<Normal(0)>>, <<Normal(1)>> >>, "Unhardened"),
           SinglePub(NoOrigin, "02pubkey") }

RECURSIVE SeqsUpTo(_, _)
SeqsUpTo(S, n) ==
    IF n = 0 THEN { <<>> }
    ELSE LET shorter == SeqsUpTo(S, n - 1)
         IN  shorter \cup { Append(s, x) : s \in { t \in shorter : Len(t) = n - 1 }, x \in S }

KeyLists == { s \in SeqsUpTo(KeyUniverse, MaxKeys) : Len(s) >= 1 }

\* confidential::Key
BlindingSeeds == { [i \in 1..Slip77Len |-> 156], [i \in 1..Slip77Len |-> 1] }
ConfidentialKeys ==
    { [kind |-> "Slip77", bytes |-> s] : s \in BlindingSeeds }
    \cup { [kind |-> "Bare", bytes |-> <<>>], [kind |-> "View", bytes |-> <<>>] }

\* Descriptor<DescriptorPublicKey>: the outer template, the WshInner variant and,
\* for WshInner::Ms, the Terminal at the top of the miniscript
ScriptShapes ==
    { [outer |-> "Wsh", inner |-> "SortedMulti", node |-> "-"],
      [outer |-> "Wsh", inner |-> "Ms", node |-> "Multi"],
      [outer |-> "Wsh", inner |-> "Ms", node |-> "Thresh"],
      [outer |-> "Wsh", inner |-> "Ms", node |-> "AndV"],
      [outer |-> "Sh", inner |-> "SortedMulti", node |-> "-"],
      [outer |-> "Wpkh", inner |-> "-", node |-> "-"] }

\* every parseable descriptor: thresholds are within 1..n by the parser's own check
Descriptors ==
    { [key |-> ck, shape |-> sh, k |-> t, pks |-> pks] :
        ck \in ConfidentialKeys, sh \in ScriptShapes,
        t \in 1..MaxKeys, pks \in KeyLists }

ParseableDescriptors ==
    { d \in Descriptors :
        /\ d.k <= Len(d.pks)
        /\ d.shape.outer = "Wpkh" => (Len(d.pks) = 1 /\ d.k = 1) }

----------------------------------------------------------------------------
(* The library calls of try_from *)

\* DescriptorPublicKey::master_fingerprint
MasterFingerprint(pk) ==
    IF pk.origin # NoOrigin THEN pk.origin[1].fingerprint
    ELSE IF pk.kind = "Single" THEN SingleFingerprint
    ELSE XKeyFingerprint(pk.key)

\* DescriptorPublicKey::full_derivation_path: <<>> stands for None, <<p>> for Some(p)
FullDerivationPath(pk) ==
    LET originPath == IF pk.origin # NoOrigin THEN pk.origin[1].path ELSE <<>>
    IN  CASE pk.kind = "XPub" -> << originPath \o pk.paths[1] >>
          [] pk.kind = "Single" -> << originPath >>
          [] OTHER -> <<>>

\* u32::from(ChildNumber): the hardened flag is bit 31, the index the low 31 bits.
\* The 32-bit word is kept as the pair of the two, 2^31 being beyond TLC's integers.
ChildNumberToU32(c) == [bit31 |-> c.hardened, low31 |-> c.index]

\* crate::derivation_path_to_vec: each child number as its 32-bit word
DerivationPathToVec(path) == [i \in 1..Len(path) |-> ChildNumberToU32(path[i])]

RECURSIVE FlattenSeq(_)
FlattenSeq(ss) == IF ss = <<>> THEN <<>> ELSE Head(ss) \o FlattenSeq(Tail(ss))

\* fmt of a derivation path: "/i" or "/ih" per step
FmtDerivationPath(path) ==
    FlattenSeq([i \in 1..Len(path) |->
        <<"/", IndexToString(path[i].index)>> \o (IF path[i].hardened THEN <<"h">> ELSE <<>>)])

\* Display for DescriptorPublicKey, as the sequence of its lexical pieces
KeyToString(pk) ==
    LET originStr ==
            IF pk.origin = NoOrigin THEN <<>>
            ELSE <<"[", FingerprintToString(pk.origin[1].fingerprint)>>
                 \o FmtDerivationPath(pk.origin[1].path) \o <<"]">>
        pathStr ==
            CASE pk.kind = "XPub" -> FmtDerivationPath(pk.paths[1])
              [] pk.kind = "MultiXPub" -> <<"/", "<0;1>">>
              [] OTHER -> <<>>
        wildStr ==
            CASE pk.wildcard = "Unhardened" -> <<"/", "*">>
              [] pk.wildcard = "Hardened" -> <<"/", "*", "h">>
              [] OTHER -> <<>>
    IN  originStr \o <<pk.key>> \o pathStr \o wildStr

\* str::replace("/*", ""): every occurrence, left to right
RECURSIVE RemoveWildcard(_)
RemoveWildcard(s) ==
    IF Len(s) < 2 THEN s
    ELSE IF s[1] = "/" /\ s[2] = "*" THEN RemoveWildcard(SubSeq(s, 3, Len(s)))
    ELSE <<s[1]>> \o RemoveWildcard(Tail(s))

\* str::parse::<ExtendedPubKey>: <<>> stands for Err, <<x>> for Ok(x);
\* only a bare base58 extended key parses
ParseExtendedPubKey(s) ==
    IF Len(s) = 1 /\ s[1] \in XKeys THEN <<s[1]>> ELSE <<>>

----------------------------------------------------------------------------
(* register_multisig.rs *)

\* Err(()): the unit error
ErrUnit == [tag |-> "Err"]
\* an unwrap() on None or Err: the conversion aborts
Panicked == [tag |-> "Panic"]
NotRun == [tag |-> "NotRun"]

\* the MultisigSigner built in the body of each of the two loops; <<>> when one of
\* its two unwrap() calls aborts
SignerOf(pk) ==
    LET derivation == FullDerivationPath(pk)
        xpub == ParseExtendedPubKey(RemoveWildcard(KeyToString(pk)))
    IN  IF derivation = <<>> \/ xpub = <<>> THEN <<>>
        ELSE << [fingerprint |-> MasterFingerprint(pk),
                 derivation |-> DerivationPathToVec(derivation[1]),
                 xpub |-> xpub[1],
                 path |-> <<>>] >>

\* signers.push(signer) for every key, in order; <<>> stands for the abort
SignersOf(pks) ==
    IF \E i \in 1..Len(pks) : SignerOf(pks[i]) = <<>> THEN <<>>
    ELSE << [i \in 1..Len(pks) |-> SignerOf(pks[i])[1]] >>

JadeDescriptor(sorted, threshold, master_blinding_key, signers) ==
    [tag |-> "Ok", variant |-> "wsh(multi(k))", sorted |-> sorted,
     threshold |-> threshold, master_blinding_key |-> master_blinding_key,
     signers |-> signers]

\* the two arms that build a record share this tail (k as u32 keeps every
\* threshold a parsed multi can carry)
BuildRecord(d, sorted) ==
    LET signers == SignersOf(d.pks)
    IN  IF signers = <<>> THEN Panicked
        ELSE JadeDescriptor(sorted, d.k, d.key.bytes, signers[1])

\* try_from without its first match: the blinding key is taken whatever its kind
TryFromAnyKeySource(d) ==
    IF d.shape.outer # "Wsh" THEN ErrUnit
    ELSE IF d.shape.inner = "SortedMulti" THEN BuildRecord(d, TRUE)
    ELSE IF d.shape.node = "Multi" THEN BuildRecord(d, FALSE)
    ELSE ErrUnit

\* impl TryFrom<ConfidentialDescriptor<DescriptorPublicKey>> for JadeDescriptor
TryFrom(d) ==
    IF d.key.kind # "Slip77" THEN ErrUnit
    ELSE IF d.shape.outer # "Wsh" THEN ErrUnit
    ELSE IF d.shape.inner = "SortedMulti" THEN BuildRecord(d, TRUE)
    ELSE IF d.shape.node = "Multi" THEN BuildRecord(d, FALSE)
    ELSE ErrUnit

----------------------------------------------------------------------------
(* The conversion as a state machine: any parseable descriptor, converted once *)

InitBridge ==
    /\ desc \in ParseableDescriptors
    /\ result = NotRun
    /\ node_txs = {}
    /\ store = {}
    /\ next_txid = 1
    /\ pset = <<>>
    /\ details = <<>>
    /\ request = <<>>
    /\ before = {}
    /\ pc = "idle"
    /\ last_error = "none"
    /\ signing = <<>>
    /\ persisted = <<>>
    /\ registration = <<>>
    /\ waiting = <<>>

\* desc.try_into()
Convert ==
    /\ result = NotRun
    /\ result' = TryFrom(desc)
    /\ UNCHANGED <<signing, persisted, registration, waiting>>
    /\ UNCHANGED <<desc, node_txs, store, next_txid, pset, details, request, before, pc,
                   last_error>>

NextBridge == Convert

SpecBridge == InitBridge /\ [][NextBridge]_vars

----------------------------------------------------------------------------
(* Confidential transactions, as the ledger and the builder see them *)

\* AssetId: the policy asset, the asset the node issues (node_issueasset), and the
\* asset and reissuance token of an issuance, identified by what defines them
PolicyAsset == [kind |-> "policy", txid |-> 0, vout |-> 0, contract |-> "-"]
NodeAsset == [kind |-> "node", txid |-> 0, vout |-> 0, contract |-> "-"]

\* ContractHash::from_slice(&[0u8; 32]): the hash used when no contract is given
ZeroContractHash == "000..0"

\* new_issuance with the contract hash left out of the entropy
NewIssuanceIgnoringContract(prevout, contract_hash) ==
    [kind |-> "asset", txid |-> prevout.txid, vout |-> prevout.vout,
     contract |-> "000..0"]

\* AssetId::new_issuance(prevout, contract_hash)
NewIssuance(prevout, contract_hash) ==
    [kind |-> "asset", txid |-> prevout.txid, vout |-> prevout.vout, contract |-> contract_hash]

\* the reissuance token of the same entropy
NewReissuanceToken(prevout, contract_hash) ==
    [kind |-> "token", txid |-> prevout.txid, vout |-> prevout.vout, contract |-> contract_hash]

\* the token that reissues an asset, and back
TokenOf(asset) == [asset EXCEPT !.kind = "token"]

OutPoint(txid, vout) == [txid |-> txid, vout |-> vout]

\* a transaction output: who can spend it ("wallet", "external", "burn", "fee"), its
\* asset and amount, and whether the wallet's blinding key unblinds it
TxOut(to, asset, value, unblindable) ==
    [to |-> to, asset |-> asset, value |-> value, unblindable |-> unblindable]

RECURSIVE SumValues(_)
SumValues(S) ==
    IF S = {} THEN 0
    ELSE LET x == CHOOSE y \in S : TRUE IN x.value + SumValues(S \ {x})

RECURSIVE SeqOfSet(_)
\* the elements of a set of outputs in outpoint order
SeqOfSet(S) ==
    IF S = {} THEN <<>>
    ELSE LET x == CHOOSE y \in S : \A z \in S :
                    \/ y.outpoint.txid < z.outpoint.txid
                    \/ y.outpoint.txid = z.outpoint.txid /\ y.outpoint.vout <= z.outpoint.vout
         IN  <<x>> \o SeqOfSet(S \ {x})

----------------------------------------------------------------------------
(* UTXO & balance ledger *)

\* the outputs of the merged transactions that pay the descriptor and unblind
OwnedOutputs(txs) ==
    UNION { { [outpoint |-> OutPoint(t.txid, i - 1), asset |-> t.outs[i].asset,
               value |-> t.outs[i].value] :
                i \in { j \in 1..Len(t.outs) :
                          t.outs[j].to = "wallet" /\ t.outs[j].unblindable } } :
            t \in txs }

SpentOutPoints(txs) == UNION { { t.ins[i].prev : i \in 1..Len(t.ins) } : t \in txs }

\* utxos() that keeps what does not unblind
UtxosWithBlinded(txs) ==
    { o \in UNION { { [outpoint |-> [txid |-> t.txid, vout |-> i - 1],
                       asset |-> t.outs[i].asset, value |-> t.outs[i].value] :
                        i \in { j \in 1..Len(t.outs) : t.outs[j].to = "wallet" } } :
                    t \in txs } :
        o.outpoint \notin SpentOutPoints(txs) }

\* Wollet::utxos
Utxos(txs) == { o \in OwnedOutputs(txs) : o.outpoint \notin SpentOutPoints(txs) }

\* Wollet::balance: one entry per asset held
Balance(txs) ==
    [a \in { o.asset : o \in Utxos(txs) } |->
        SumValues({ o \in Utxos(txs) : o.asset = a })]

\* TestWollet::balance: *balance.get(asset).unwrap_or(&0u64)
BalanceOf(txs, asset) ==
    IF asset \in DOMAIN Balance(txs) THEN Balance(txs)[asset] ELSE 0

\* the issuance field of an input: a new issuance commits to a contract hash and
\* takes its entropy from the outpoint the input spends; a reissuance names the
\* outpoint and contract of the issuance it repeats
TxInIssuance(is_reissuance, entropy_prevout, contract_hash, asset_amount, token_amount) ==
    [is_reissuance |-> is_reissuance, entropy_prevout |-> entropy_prevout,
     contract |-> contract_hash, asset_amount |-> asset_amount,
     token_amount |-> token_amount]

\* Input::issuance_ids: the (asset, token) pair an issuing input defines
IssuanceIds(input) ==
    LET iss == input.issuance[1]
        source == IF iss.is_reissuance THEN iss.entropy_prevout ELSE input.prev
    IN  <<NewIssuance(source, iss.contract), NewReissuanceToken(source, iss.contract)>>

\* the issuance an input carries, as an IssuanceRecord; an amount is <<>> for None
IssuanceRecord(txid, vin, input) ==
    LET iss == input.issuance[1]
    IN  [txid |-> txid, vin |-> vin,
         asset |-> IssuanceIds(input)[1], token |-> IssuanceIds(input)[2],
         is_reissuance |-> iss.is_reissuance,
         asset_amount |-> IF iss.asset_amount > 0 THEN <<iss.asset_amount>> ELSE <<>>,
         token_amount |-> IF ~iss.is_reissuance /\ iss.token_amount > 0
                          THEN <<iss.token_amount>> ELSE <<>>]

\* the issuance records of one transaction, by input index
TxIssuances(t) ==
    { IssuanceRecord(t.txid, i - 1, t.ins[i]) :
        i \in { j \in 1..Len(t.ins) : t.ins[j].issuance # <<>> } }

\* Wollet::issuances
Issuances(txs) == UNION { TxIssuances(t) : t \in txs }

\* the value an owned input of t takes out of the wallet, an owned output brings in
OwnedInputsOf(t, txs) ==
    { o \in OwnedOutputs(txs) : \E i \in 1..Len(t.ins) : t.ins[i].prev = o.outpoint }

\* per-asset net delta of a merged transaction
TxBalance(t, txs) ==
    LET ins == OwnedInputsOf(t, txs)
        outs == OwnedOutputs({t})
    IN  [a \in { o.asset : o \in ins \cup outs } |->
            SumValues({ o \in outs : o.asset = a }) - SumValues({ o \in ins : o.asset = a })]

\* the explicit fee outputs of a transaction
TxFee(t) ==
    SumValues({ [vout |-> i, value |-> t.outs[i].value] :
                  i \in { j \in 1..Len(t.outs) : t.outs[j].to = "fee" } })

\* the classification without its burn case
TxTypeWithoutBurn(t, txs) ==
    LET bal == TxBalance(t, txs)
        iss == TxIssuances(t)
    IN  IF \E r \in iss : ~r.is_reissuance THEN "issuance"
        ELSE IF \E r \in iss : r.is_reissuance THEN "reissuance"
        ELSE IF DOMAIN bal # {} /\ \A a \in DOMAIN bal : bal[a] > 0 THEN "incoming"
        ELSE IF DOMAIN bal # {} /\ \A a \in DOMAIN bal : bal[a] < 0 THEN "outgoing"
        ELSE "unknown"

\* the classification of a settled transaction
TxType(t, txs) ==
    LET bal == TxBalance(t, txs)
        iss == TxIssuances(t)
    IN  IF \E r \in iss : ~r.is_reissuance THEN "issuance"
        ELSE IF \E r \in iss : r.is_reissuance THEN "reissuance"
        ELSE IF \E i \in 1..Len(t.outs) : t.outs[i].to = "burn" THEN "burn"
        ELSE IF DOMAIN bal # {} /\ \A a \in DOMAIN bal : bal[a] > 0 THEN "incoming"
        ELSE IF DOMAIN bal # {} /\ \A a \in DOMAIN bal : bal[a] < 0 THEN "outgoing"
        ELSE "unknown"

\* Wollet::transaction(txid): <<>> for None, <<WalletTx>> for Some
WalletTx(txid, txs) ==
    IF \E t \in txs : t.txid = txid
    THEN LET t == CHOOSE u \in txs : u.txid = txid
         IN  << [txid |-> txid, balance |-> TxBalance(t, txs), fee |-> TxFee(t),
                 type |-> TxType(t, txs), issuances |-> TxIssuances(t)] >>
    ELSE <<>>

\* what a scan hands to the ledger: the node's transactions that pay the
\* descriptor or spend one of its outputs
RelevantTxs(chain) ==
    { t \in chain :
        \/ \E i \in 1..Len(t.outs) : t.outs[i].to = "wallet"
        \/ \E i \in 1..Len(t.ins) : \E u \in chain :
              /\ u.txid = t.ins[i].prev.txid
              /\ t.ins[i].prev.vout + 1 \in 1..Len(u.outs)
              /\ u.outs[t.ins[i].prev.vout + 1].to = "wallet" }

\* merge_scan: the ledger after a scan of the node's transactions
MergeScan(txs, chain) == txs \cup RelevantTxs(chain)

----------------------------------------------------------------------------
(* Transaction builder and pre-signing analysis *)

\* amounts the harness asks for, one per operation so that no two coincide
PaySatoshi == {3}
BurnSatoshi == {2}
IssueSatoshi == {5}
TokenSatoshi == {0, 1}
ReissueSatoshi == {4}
FeeRates == {1}
\* what node_sendtoaddress sends: fund_btc's and fund_asset's amounts, scaled down
FundSatoshi(asset) == IF asset = PolicyAsset THEN {20} ELSE {6}
\* Contract::contract_hash of the one contract the harness passes
ContractHashes == {"c1"}

\* a call of the builder: the operation, its recipient, asset and amounts, the
\* contract (<<>> for None) and the fee rate
Request(op, to, asset, satoshi, token_satoshi, contract, fee_rate) ==
    [op |-> op, to |-> to, asset |-> asset, satoshi |-> satoshi,
     token_satoshi |-> token_satoshi, contract |-> contract, fee_rate |-> fee_rate]

\* the contract hash an issuance commits to
ContractHashOf(contract) == IF contract = <<>> THEN ZeroContractHash ELSE contract[1]

SumAsset(S, a) == SumValues({ o \in S : o.asset = a })

\* what has to leave the wallet in asset a besides the fee
Outflow(req, a) ==
    IF req.op \in {"pay", "burn"} /\ req.asset = a THEN req.satoshi ELSE 0

\* the request's outputs with the reissuance token spent and not returned
RequestOutputsBurnsToken(req, sel, first) ==
    CASE req.op = "pay" ->
            << [to |-> req.to, asset |-> req.asset, value |-> req.satoshi,
                unblindable |-> req.to = "wallet"] >>
      [] req.op = "burn" ->
            << [to |-> "burn", asset |-> req.asset, value |-> req.satoshi,
                unblindable |-> FALSE] >>
      [] req.op = "issue" ->
            << [to |-> "wallet",
                asset |-> NewIssuance(first.outpoint, ContractHashOf(req.contract)),
                value |-> req.satoshi, unblindable |-> TRUE] >>
            \o (IF req.token_satoshi > 0
                THEN << [to |-> "wallet",
                         asset |-> NewReissuanceToken(first.outpoint,
                                                      ContractHashOf(req.contract)),
                         value |-> req.token_satoshi, unblindable |-> TRUE] >>
                ELSE <<>>)
      [] OTHER ->
            << [to |-> "wallet", asset |-> req.asset, value |-> req.satoshi,
                unblindable |-> TRUE] >>

\* the outputs the request itself defines, from the selected inputs `sel` of which
\* `first` is the issuing input
RequestOutputs(req, sel, first) ==
    CASE req.op = "pay" ->
            << TxOut(req.to, req.asset, req.satoshi, req.to = "wallet") >>
      [] req.op = "burn" ->
            << TxOut("burn", req.asset, req.satoshi, FALSE) >>
      [] req.op = "issue" ->
            << TxOut("wallet", NewIssuance(first.outpoint, ContractHashOf(req.contract)),
                     req.satoshi, TRUE) >>
            \o (IF req.token_satoshi > 0
                THEN << TxOut("wallet",
                              NewReissuanceToken(first.outpoint, ContractHashOf(req.contract)),
                              req.token_satoshi, TRUE) >>
                ELSE <<>>)
      [] OTHER ->
            << TxOut("wallet", req.asset, req.satoshi, TRUE),
               TxOut("wallet", TokenOf(req.asset), SumAsset(sel, TokenOf(req.asset)), TRUE) >>

\* change of the asset paid or burnt, when it is not the policy asset
AssetChange(req, sel) ==
    IF /\ req.op \in {"pay", "burn"}
       /\ req.asset # PolicyAsset
       /\ SumAsset(sel, req.asset) > req.satoshi
    THEN << TxOut("wallet", req.asset, SumAsset(sel, req.asset) - req.satoshi, TRUE) >>
    ELSE <<>>

\* fee rate times estimated weight: one unit per input and per output, the policy
\* change and the fee output always counted
EstimatedFee(req, sel, first) ==
    req.fee_rate * (Cardinality(sel) + Len(RequestOutputs(req, sel, first))
                    + Len(AssetChange(req, sel)) + 2)

\* the assets coin selection may take inputs of
SelectableAssets(req) ==
    {PolicyAsset}
    \cup (IF req.op \in {"pay", "burn"} THEN {req.asset} ELSE {})
    \cup (IF req.op = "reissue" THEN {TokenOf(req.asset)} ELSE {})

\* the input that carries the issuance comes first: the token input of a
\* reissuance, the lowest outpoint otherwise
InputOrder(req, sel) ==
    IF req.op = "reissue"
    THEN SeqOfSet({ o \in sel : o.asset = TokenOf(req.asset) })
         \o SeqOfSet({ o \in sel : o.asset # TokenOf(req.asset) })
    ELSE SeqOfSet(sel)

\* the issuance field the first input gets
FirstInputIssuance(req) ==
    CASE req.op = "issue" ->
            << TxInIssuance(FALSE, OutPoint(0, 0), ContractHashOf(req.contract),
                            req.satoshi, req.token_satoshi) >>
      [] req.op = "reissue" ->
            << TxInIssuance(TRUE, OutPoint(req.asset.txid, req.asset.vout),
                            req.asset.contract, req.satoshi, 0) >>
      [] OTHER -> <<>>

\* a coin selection that covers the request and its fee
Covers(req, sel, txs) ==
    LET first == InputOrder(req, sel)[1]
    IN  /\ sel # {}
        /\ \A o \in sel : o.asset \in SelectableAssets(req)
        /\ SumAsset(sel, PolicyAsset)
             >= Outflow(req, PolicyAsset) + EstimatedFee(req, sel, first)
        /\ req.op \in {"pay", "burn"} => SumAsset(sel, req.asset) >= req.satoshi
        /\ req.op = "reissue" =>
             /\ SumAsset(sel, TokenOf(req.asset)) > 0
             /\ \E r \in Issuances(txs) : r.asset = req.asset /\ ~r.is_reissuance

\* the pset of one coin selection
PsetOf(req, sel, txid) ==
    LET order == InputOrder(req, sel)
        first == order[1]
        fee == EstimatedFee(req, sel, first)
        change == SumAsset(sel, PolicyAsset) - Outflow(req, PolicyAsset) - fee
    IN  [txid |-> txid,
         ins |-> [i \in 1..Len(order) |->
                    [prev |-> order[i].outpoint,
                     witness_utxo |-> [asset |-> order[i].asset, value |-> order[i].value],
                     issuance |-> IF i = 1 THEN FirstInputIssuance(req) ELSE <<>>]],
         outs |-> RequestOutputs(req, sel, first)
                  \o AssetChange(req, sel)
                  \o (IF change > 0 THEN << TxOut("wallet", PolicyAsset, change, TRUE) >>
                      ELSE <<>>)
                  \o << TxOut("fee", PolicyAsset, fee, FALSE) >>,
         sigs |-> {}]

\* WolletTxBuilder::finish over the ledger `txs`: every pset a coin selection may
\* yield; the empty set when none covers the request (InsufficientFunds)
Finish(req, txs, txid) ==
    { PsetOf(req, sel, txid) : sel \in { s \in SUBSET Utxos(txs) : Covers(req, s, txs) } }

\* Wollet::get_details: the analysis of a pset, from the pset alone
GetDetails(p) ==
    LET ins == { [vin |-> i, asset |-> p.ins[i].witness_utxo.asset,
                  value |-> p.ins[i].witness_utxo.value] : i \in 1..Len(p.ins) }
        outs == { [vout |-> i, asset |-> p.outs[i].asset, value |-> p.outs[i].value] :
                    i \in { j \in 1..Len(p.outs) : p.outs[j].to = "wallet" } }
    IN  [balances |-> [a \in { o.asset : o \in ins \cup outs } |->
                          SumAsset(outs, a) - SumAsset(ins, a)],
         fee |-> TxFee(p),
         issuances |-> TxIssuances(p)]

\* lwk_test_util::n_issuances and n_reissuances
NIssuances(d) == Cardinality({ r \in d.issuances : ~r.is_reissuance })
NReissuances(d) == Cardinality({ r \in d.issuances : r.is_reissuance })

\* Wollet::finalize followed by the extraction of the transaction: the signatures
\* become witnesses, the signing data is dropped
ExtractTx(p) ==
    [txid |-> p.txid,
     ins |-> [i \in 1..Len(p.ins) |-> [prev |-> p.ins[i].prev, issuance |-> p.ins[i].issuance]],
     outs |-> p.outs]

----------------------------------------------------------------------------
(* TestWollet: the harness of test_wollet.rs *)

\* the signers handed to multisig_desc and to the send functions
WalletSigners == <<"s1", "s2">>

\* s.derive_xpub(m/84h/0h/0h) of each signer
SignerXpub(s) == IF s = "s1" THEN "tpubA" ELSE "tpubB"

\* multisig_desc(signers, threshold):
\* ct(slip77(..),elwsh(multi(threshold,[fingerprint/84h/0h/0h]xpub/<0;1>/*,..)))
MultisigDesc(signers, threshold) ==
    [key |-> [kind |-> "Slip77", bytes |-> [i \in 1..Slip77Len |-> 156]],
     shape |-> [outer |-> "Wsh", inner |-> "Ms", node |-> "Multi"],
     k |-> threshold,
     pks |-> [i \in 1..Len(signers) |->
                MultiXPub(Origin84h, SignerXpub(signers[i]),
                          << <<Normal(0)>>, <<Normal(1)>> >>, "Unhardened")]]

\* the assets a request may name: the policy asset, the node's asset, and whatever
\* the wallet holds
KnownAssets(txs) == {PolicyAsset, NodeAsset} \cup DOMAIN Balance(txs)

\* the builder calls of send_btc, send_asset, burnasset, issueasset, reissueasset
Requests(txs) ==
    { Request("pay", to, a, v, 0, <<>>, r) :
        to \in {"external", "wallet"}, a \in KnownAssets(txs), v \in PaySatoshi, r \in FeeRates }
    \cup { Request("burn", "-", a, v, 0, <<>>, r) :
        a \in KnownAssets(txs), v \in BurnSatoshi, r \in FeeRates }
    \cup { Request("issue", "-", PolicyAsset, v, k, c, r) :
        v \in IssueSatoshi, k \in TokenSatoshi,
        c \in {<<>>} \cup { <<h>> : h \in ContractHashes }, r \in FeeRates }
    \cup { Request("reissue", "-", a, v, 0, <<>>, r) :
        a \in { b \in KnownAssets(txs) : b.kind \in {"asset", "node"} },
        v \in ReissueSatoshi, r \in FeeRates }

Init ==
    /\ desc \in { MultisigDesc(WalletSigners, t) : t \in 1..Len(WalletSigners) }
    /\ result = NotRun
    /\ node_txs = {}
    /\ store = {}
    /\ next_txid = 1
    /\ pset = <<>>
    /\ details = <<>>
    /\ request = <<>>
    /\ before = {}
    /\ pc = "idle"
    /\ last_error = "none"
    /\ signing = <<>>
    /\ persisted = <<>>
    /\ registration = <<>>
    /\ waiting = <<>>

\* server.node_sendtoaddress(address, satoshi, asset) of fund(): the node pays one
\* output to an address of the wallet; `unblindable` is whether the wallet's key
\* unblinds it
NodeSendToAddress(satoshi, asset, unblindable) ==
    /\ pc = "idle"
    /\ next_txid <= MaxTxs
    /\ node_txs' = node_txs \cup
            { [txid |-> next_txid, ins |-> <<>>,
               outs |-> << TxOut("wallet", asset, satoshi, unblindable) >>] }
    /\ next_txid' = next_txid + 1
    /\ UNCHANGED <<signing, persisted, registration, waiting>>
    /\ UNCHANGED <<desc, result, store, pset, details, request, before, pc, last_error>>

\* full_scan_with_electrum_client of sync() and of each round of wait_for_tx: the
\* scan is merged into the ledger; wait_for_tx returns once the sent transaction
\* is in the list
Scan ==
    /\ MergeScan(store, node_txs) # store
    /\ store' = MergeScan(store, node_txs)
    /\ pc' = IF pc = "sent" /\ \E t \in store' : t.txid = pset[1].txid
             THEN "confirmed" ELSE pc
    /\ UNCHANGED <<signing, persisted, registration, waiting>>
    /\ UNCHANGED <<desc, result, node_txs, next_txid, pset, details, request, before,
                   last_error>>

\* the build of a send function that drops its `external` argument: the recipient is
\* the wallet's own address whatever was asked
BuildPaysSelf(req) ==
    /\ pc = "idle"
    /\ next_txid <= MaxTxs
    /\ \E p \in Finish([req EXCEPT !.to = IF req.op = "pay" THEN "wallet" ELSE @],
                       store, next_txid) :
          /\ pset' = <<p>>
          /\ details' = <<GetDetails(p)>>
    /\ request' = <<req>>
    /\ before' = store
    /\ pc' = "built"
    /\ next_txid' = next_txid + 1
    /\ last_error' = "none"
    /\ UNCHANGED <<signing, persisted, registration, waiting>>
    /\ UNCHANGED <<desc, result, node_txs, store>>

\* tx_builder()...finish().unwrap() and get_details(&pset).unwrap() of the send,
\* issue, reissue and burn functions
Build(req) ==
    /\ pc = "idle"
    /\ next_txid <= MaxTxs
    /\ \E p \in Finish(req, store, next_txid) :
          /\ pset' = <<p>>
          /\ details' = <<GetDetails(p)>>
    /\ request' = <<req>>
    /\ before' = store
    /\ pc' = "built"
    /\ next_txid' = next_txid + 1
    /\ last_error' = "none"
    /\ UNCHANGED <<signing, persisted, registration, waiting>>
    /\ UNCHANGED <<desc, result, node_txs, store>>

\* finish() returning an error: no coin selection covers the request
BuildFails(req) ==
    /\ pc = "idle"
    /\ Finish(req, store, next_txid) = {}
    /\ last_error' = "InsufficientFunds"
    /\ UNCHANGED <<signing, persisted, registration, waiting>>
    /\ UNCHANGED <<desc, result, node_txs, store, next_txid, pset, details, request,
                   before, pc>>

\* sign whose pset round trip loses the issuance fields of the inputs
SignLossyRoundTrip(signer) ==
    /\ pc = "built"
    /\ pset' = << [pset[1] EXCEPT
                     !.sigs = @ \cup {signer},
                     !.ins = [i \in 1..Len(@) |-> [@[i] EXCEPT !.issuance = <<>>]]] >>
    /\ last_error' = "none"
    /\ UNCHANGED <<signing, persisted, registration, waiting>>
    /\ UNCHANGED <<desc, result, node_txs, store, next_txid, details, request, before, pc>>

\* sign that also records the signed transaction in the ledger
SignAndRecord(signer) ==
    /\ pc = "built"
    /\ pset' = << [pset[1] EXCEPT !.sigs = @ \cup {signer}] >>
    /\ store' = store \cup
          { [txid |-> pset[1].txid,
             ins |-> [i \in 1..Len(pset[1].ins) |->
                        [prev |-> pset[1].ins[i].prev, issuance |-> pset[1].ins[i].issuance]],
             outs |-> pset[1].outs] }
    /\ last_error' = "none"
    /\ UNCHANGED <<signing, persisted, registration, waiting>>
    /\ UNCHANGED <<desc, result, node_txs, next_txid, details, request, before, pc>>

\* TestWollet::sign: signer.sign(pset) adds the signer's signature to every input
Sign(signer) ==
    /\ pc = "built"
    /\ pset' = << [pset[1] EXCEPT !.sigs = @ \cup {signer}] >>
    /\ last_error' = "none"
    /\ UNCHANGED <<signing, persisted, registration, waiting>>
    /\ UNCHANGED <<desc, result, node_txs, store, next_txid, details, request, before, pc>>

\* the threshold of the wallet's descriptor is met on every input
Finalizable(p) == Cardinality(p.sigs) >= desc.k

\* TestWollet::send: finalize, then broadcast; wait_for_tx is the scans after it
Send ==
    /\ pc = "built"
    /\ Finalizable(pset[1])
    /\ node_txs' = node_txs \cup {ExtractTx(pset[1])}
    /\ pc' = "sent"
    /\ last_error' = "none"
    /\ UNCHANGED <<signing, persisted, registration, waiting>>
    /\ UNCHANGED <<desc, result, store, next_txid, pset, details, request, before>>

\* finalize on a pset short of signatures
SendFails ==
    /\ pc = "built"
    /\ ~Finalizable(pset[1])
    /\ last_error' = "IncompleteSignatures"
    /\ UNCHANGED <<signing, persisted, registration, waiting>>
    /\ UNCHANGED <<desc, result, node_txs, store, next_txid, pset, details, request,
                   before, pc>>

\* the harness function returns after its last assertion
Return ==
    /\ pc = "confirmed"
    /\ pc' = "idle"
    /\ pset' = <<>>
    /\ details' = <<>>
    /\ request' = <<>>
    /\ before' = {}
    /\ UNCHANGED <<signing, persisted, registration, waiting>>
    /\ UNCHANGED <<desc, result, node_txs, store, next_txid, last_error>>

Next ==
    \/ \E a \in {PolicyAsset, NodeAsset} : \E s \in FundSatoshi(a) : \E u \in BOOLEAN :
          NodeSendToAddress(s, a, u)
    \/ Scan
    \/ \E req \in Requests(store) : Build(req)
    \/ \E req \in Requests(store) : BuildFails(req)
    \/ \E i \in 1..Len(WalletSigners) : Sign(WalletSigners[i])
    \/ Send
    \/ SendFails
    \/ Return

Spec == Init /\ [][Next]_vars

----------------------------------------------------------------------------
(* Properties of the conversion (under SpecBridge) *)

Converted == result # NotRun

\* a SLIP-0077 descriptor whose script is wsh(multi(..)) or wsh(sortedmulti(..))
IsSlip77WshMulti(d) ==
    /\ d.key.kind = "Slip77"
    /\ d.shape.outer = "Wsh"
    /\ d.shape.inner = "SortedMulti" \/ (d.shape.inner = "Ms" /\ d.shape.node = "Multi")

\* what the record is to say about one key: the origin's fingerprint and path, or
\* the key's own fingerprint and the empty path when the key is the master itself
ExpectedSigner(pk) ==
    [fingerprint |-> IF pk.origin # NoOrigin THEN pk.origin[1].fingerprint
                     ELSE IF pk.kind = "Single" THEN SingleFingerprint
                     ELSE XKeyFingerprint(pk.key),
     derivation |-> IF pk.origin # NoOrigin
                    THEN [i \in 1..Len(pk.origin[1].path) |->
                            [bit31 |-> pk.origin[1].path[i].hardened,
                             low31 |-> pk.origin[1].path[i].index]]
                    ELSE <<>>,
     xpub |-> pk.key,
     path |-> <<>>]

\* C1: every SLIP-0077 wsh multisig descriptor over n keys with threshold t converts
\* to a record with variant "wsh(multi(k))", threshold t, the 32-byte seed, sorted
\* exactly for sortedmulti, and n signers in key order, each with the key's master
\* fingerprint, its derivation from the master, its extended key and an empty path.
C1_EveryMultisigConverts ==
    (Converted /\ IsSlip77WshMulti(desc)) =>
        /\ result.tag = "Ok"
        /\ result.variant = "wsh(multi(k))"
        /\ result.threshold = desc.k
        /\ result.master_blinding_key = desc.key.bytes
        /\ Len(result.master_blinding_key) = Slip77Len
        /\ result.sorted = (desc.shape.inner = "SortedMulti")
        /\ Len(result.signers) = Len(desc.pks)
        /\ \A i \in 1..Len(desc.pks) : result.signers[i] = ExpectedSigner(desc.pks[i])

\* the key form of test::from_desc_to_jade_desc: no origin, no step after the
\* extended key, no wildcard or the unhardened one
IsPlainXPub(pk) ==
    /\ pk.kind = "XPub"
    /\ pk.origin = NoOrigin
    /\ pk.paths[1] = <<>>
    /\ pk.wildcard \in {"None", "Unhardened"}

\* C1, on the descriptors the code does convert: the record is the one C1 describes
\* whenever every key is a plain extended key.
C1_PlainKeysConvert ==
    (Converted /\ IsSlip77WshMulti(desc) /\ \A i \in 1..Len(desc.pks) : IsPlainXPub(desc.pks[i]))
        => C1_EveryMultisigConverts

\* a rejection cause of C2
IsRejected(d) ==
    \/ d.key.kind # "Slip77"
    \/ d.shape.outer # "Wsh"
    \/ d.shape.inner = "Ms" /\ d.shape.node # "Multi"

\* C2: a descriptor whose key source is not SLIP-0077, or whose script is not wsh,
\* or whose wsh miniscript is not a flat multi, converts to the unit error and to
\* nothing else, whatever the cause.
C2_RejectedIsUnitError ==
    (Converted /\ IsRejected(desc)) => result = ErrUnit

\* C2 witness: a wsh multi whose keys the loop could not convert is rejected for its
\* key source before any key is looked at
C2_Witness ==
    /\ result = ErrUnit
    /\ desc.key.kind = "Bare"
    /\ desc.shape = [outer |-> "Wsh", inner |-> "Ms", node |-> "Multi"]
    /\ \E i \in 1..Len(desc.pks) : desc.pks[i].origin # NoOrigin

\* C3: the conversion never aborts: it ends with a record or with the unit error.
C3_NeverAborts ==
    Converted => result.tag \in {"Ok", "Err"}

----------------------------------------------------------------------------
(* Properties of the wallet (under Spec) *)

\* a transaction has been built and analysed, and the harness has not returned yet
Built == pc \in {"built", "sent", "confirmed"}

\* *details.balance.balances.get(asset).unwrap_or(&0)
DeltaOf(d, asset) == IF asset \in DOMAIN d.balances THEN d.balances[asset] ELSE 0

C5_PaymentAnalysis ==
    (Built /\ request[1].op = "pay" /\ request[1].asset = PolicyAsset) =>
        /\ request[1].satoshi > 0
        /\ details[1].fee > 0
        /\ PolicyAsset \in DOMAIN details[1].balances
        /\ details[1].balances[PolicyAsset] =
              IF request[1].to = "external"
              THEN -(details[1].fee + request[1].satoshi)
              ELSE -details[1].fee
        /\ NIssuances(details[1]) = 0
        /\ NReissuances(details[1]) = 0

\* C5 witness: a payment to an external recipient funded by two inputs
C5_Witness ==
    /\ pc = "built"
    /\ request[1].op = "pay"
    /\ request[1].asset = PolicyAsset
    /\ request[1].to = "external"
    /\ Len(pset[1].ins) = 2

C7_ReissuanceAnalysis ==
    (Built /\ request[1].op = "reissue") =>
        /\ Cardinality(details[1].issuances) = 1
        /\ \A r \in details[1].issuances :
              /\ r.is_reissuance
              /\ r.asset = request[1].asset
              /\ r.asset_amount = <<request[1].satoshi>>
              /\ r.token_amount = <<>>
              /\ \E o \in Issuances(before) :
                    ~o.is_reissuance /\ o.asset = request[1].asset /\ o.token = r.token
              /\ r.token \in DOMAIN details[1].balances
              /\ details[1].balances[r.token] = 0
              /\ DeltaOf(details[1], request[1].asset) = request[1].satoshi
              /\ pc = "confirmed" =>
                    /\ BalanceOf(store, r.token) = BalanceOf(before, r.token)
                    /\ BalanceOf(store, request[1].asset)
                          = BalanceOf(before, request[1].asset) + request[1].satoshi
                    /\ \E l \in Issuances(store) :
                          /\ l.txid = pset[1].txid
                          /\ l.is_reissuance
                          /\ l.asset_amount = <<request[1].satoshi>>
                          /\ l.token_amount = <<>>

\* C7 witness: a reissuance is confirmed
C7_Witness ==
    /\ pc = "confirmed"
    /\ request[1].op = "reissue"
    /\ BalanceOf(store, request[1].asset) > request[1].satoshi

C8_WitnessOtherAsset ==
    /\ pc = "confirmed"
    /\ request[1].op = "burn"
    /\ request[1].asset # PolicyAsset

\* every asset an output of the merged transactions names
AssetsSeen(txs) ==
    {PolicyAsset, NodeAsset}
    \cup UNION { { t.outs[i].asset : i \in 1..Len(t.outs) } : t \in txs }

\* the balance is the sum over utxos(), and what does not unblind is in neither
C9_BalanceIsSumOfUtxos ==
    /\ \A a \in AssetsSeen(store) :
          BalanceOf(store, a) = SumValues({ u \in Utxos(store) : u.asset = a })
    /\ \A t \in store : \A i \in 1..Len(t.outs) :
          ~t.outs[i].unblindable =>
              /\ \A u \in Utxos(store) : u.outpoint # OutPoint(t.txid, i - 1)
              /\ \A a \in DOMAIN Balance(store) :
                    Balance(store)[a] =
                        SumValues({ u \in Utxos(store) :
                            u.asset = a /\ u.outpoint # OutPoint(t.txid, i - 1) })
    /\ \A u \in Utxos(store) : \E t \in store :
          /\ t.txid = u.outpoint.txid
          /\ t.outs[u.outpoint.vout + 1].to = "wallet"
          /\ t.outs[u.outpoint.vout + 1].unblindable
          /\ t.outs[u.outpoint.vout + 1].value = u.value
          /\ \A s \in store : \A j \in 1..Len(s.ins) : s.ins[j].prev # u.outpoint

\* a scan that reveals one transaction with one received output and no owned input
\* adds one utxo and the output's amount, and the transaction is "incoming"
C9_ScanOfOneReceivedOutput ==
    \A t \in node_txs :
        ( /\ Scan
          /\ store' \ store = {t}
          /\ OwnedInputsOf(t, store') = {}
          /\ Cardinality(OwnedOutputs({t})) = 1 ) =>
            LET o == CHOOSE x \in OwnedOutputs({t}) : TRUE
            IN  /\ Cardinality(Utxos(store')) = Cardinality(Utxos(store)) + 1
                /\ BalanceOf(store', o.asset) = BalanceOf(store, o.asset) + o.value
                /\ WalletTx(t.txid, store')[1].type = "incoming"
                /\ \A a \in DOMAIN WalletTx(t.txid, store')[1].balance :
                      WalletTx(t.txid, store')[1].balance[a] > 0

\* C9: in every ledger state balance() is, per asset, the sum of the amounts of
\* utxos(), an output that does not unblind being in neither; and a scan revealing
\* one received output of s in asset a adds one utxo and s to balance[a], the
\* transaction being "incoming" with positive deltas only.
C9_BalanceAndScan ==
    []C9_BalanceIsSumOfUtxos /\ [][C9_ScanOfOneReceivedOutput]_vars

\* C9 witness: the ledger holds an output that does not unblind next to utxos
C9_Witness ==
    /\ \E t \in store : \E i \in 1..Len(t.outs) :
          t.outs[i].to = "wallet" /\ ~t.outs[i].unblindable
    /\ Cardinality(Utxos(store)) = 2

\* what the ledger shows: utxos(), balance(), issuances() and transactions()
LedgerState(txs) ==
    <<Utxos(txs), Balance(txs), Issuances(txs), { WalletTx(t.txid, txs) : t \in txs }>>

\* C10: the ledger changes in scan steps only: building, analysing, signing and
\* finalizing, failed or not, leave utxos, balance, issuances and transactions as
\* they were.
C10_OnlyScanChangesLedger ==
    [][ /\ (store' # store \/ LedgerState(store') # LedgerState(store)) => Scan
        /\ ( \/ \E req \in Requests(store) : Build(req) \/ BuildFails(req)
             \/ \E i \in 1..Len(WalletSigners) : Sign(WalletSigners[i])
             \/ Send
             \/ SendFails ) => LedgerState(store') = LedgerState(store) ]_vars

\* C10 witness: a transaction was built, signed, finalized and broadcast, and the
\* ledger is the one the builder started from
C10_Witness ==
    /\ pc = "sent"
    /\ store = before
    /\ Utxos(store) # {}
    /\ ExtractTx(pset[1]) \in node_txs

\* C10, the failing calls reached too: finalize failed on a pset one signature short
C10_WitnessFailedFinalize ==
    /\ last_error = "IncompleteSignatures"
    /\ pc = "built"
    /\ Cardinality(pset[1].sigs) = 1
    /\ store = before

\* C10, the failing calls reached too: finish failed on a wallet that holds funds
C10_WitnessFailedBuild ==
    /\ last_error = "InsufficientFunds"
    /\ Utxos(store) # {}

----------------------------------------------------------------------------
(* Signing and finalization of a multisig transaction *)

\* sign calls made on one pset
MaxSignCalls == 3

\* inputs of one pset that spend outputs of the wallet's descriptor
MaxWalletInputs == 2

\* the signer of another wallet, whose utxo make_external turns into an ExternalUtxo
ExternalSigner == "s3"

\* every signer a pset may be handed to
Signers == { WalletSigners[i] : i \in 1..Len(WalletSigners) } \cup {ExternalSigner}

\* the key a signer signs with
SignerKey(s) == IF s = ExternalSigner THEN "tpubX" ELSE SignerXpub(s)

\* the keys of the script an input spends: those of multi(k, ..) for an output of the
\* wallet, the one key of its owner for an external utxo
ScriptKeys(input) ==
    IF input.owner = "wallet" THEN { desc.pks[i].key : i \in 1..Len(desc.pks) }
    ELSE { SignerKey(ExternalSigner) }

\* the number of signatures the script asks for
ScriptThreshold(input) == IF input.owner = "wallet" THEN desc.k ELSE 1

\* a pset out of the builder: no input carries a signature
UnsignedPset(n_wallet, n_external) ==
    [ins |-> [i \in 1..(n_wallet + n_external) |->
                [owner |-> IF i <= n_wallet THEN "wallet" ELSE "external",
                 partial_sigs |-> {}]]]

\* the place of a key in the byte order of the keys
KeyRank(key) == CASE key = "tpubA" -> 1 [] key = "tpubB" -> 2 [] OTHER -> 3

RECURSIVE KeysInOrder(_)
KeysInOrder(S) ==
    IF S = {} THEN <<>>
    ELSE LET x == CHOOSE y \in S : \A z \in S : KeyRank(y) <= KeyRank(z)
         IN  <<x>> \o KeysInOrder(S \ {x})

\* the encoding of a pset: per input its owner and its partial_sigs map in key order
PsetSerialize(p) ==
    [i \in 1..Len(p.ins) |-> <<p.ins[i].owner, KeysInOrder(p.ins[i].partial_sigs)>>]

\* the decoding of it
PsetDeserialize(bytes) ==
    [ins |-> [i \in 1..Len(bytes) |->
                [owner |-> bytes[i][1],
                 partial_sigs |-> { bytes[i][2][j] : j \in 1..Len(bytes[i][2]) }]]]

\* pset_rt: the pset encoded and decoded again
PsetRt(p) == PsetDeserialize(PsetSerialize(p))

\* the inputs whose script holds the signer's key
SignableInputs(p, s) == { i \in 1..Len(p.ins) : SignerKey(s) \in ScriptKeys(p.ins[i]) }

\* Signer::sign: the signer's signature is put under its key on every input it can
\* sign, over the one it may have put there before; the count of signatures added or
\* overwritten is returned
SignerSign(p, s) ==
    [pset |-> [p EXCEPT !.ins =
                  [i \in 1..Len(p.ins) |->
                     IF i \in SignableInputs(p, s)
                     THEN [p.ins[i] EXCEPT !.partial_sigs = @ \cup {SignerKey(s)}]
                     ELSE p.ins[i]]],
     count |-> Cardinality(SignableInputs(p, s))]

\* the signatures of an input that are by keys of its script
CarriedKeys(input) == input.partial_sigs \cap ScriptKeys(input)

\* Wollet::finalize: every input must carry its threshold of signatures; the
\* transaction is extracted with them as witnesses
Finalize(p) ==
    IF \A i \in 1..Len(p.ins) : Cardinality(CarriedKeys(p.ins[i])) >= ScriptThreshold(p.ins[i])
    THEN [tag |-> "Ok",
          tx |-> [ins |-> [i \in 1..Len(p.ins) |->
                             [owner |-> p.ins[i].owner, witness |-> CarriedKeys(p.ins[i])]]]]
    ELSE [tag |-> "Err", error |-> "IncompleteSignatures"]

InitSign ==
    /\ desc \in { MultisigDesc(WalletSigners, t) : t \in 1..Len(WalletSigners) }
    /\ result = NotRun
    /\ node_txs = {}
    /\ store = {}
    /\ next_txid = 1
    /\ pset = <<>>
    /\ details = <<>>
    /\ request = <<>>
    /\ before = {}
    /\ pc = "idle"
    /\ last_error = "none"
    /\ signing \in { [pset |-> UnsignedPset(w, e), log |-> <<>>, returned |-> <<>>,
                      tx |-> <<>>, error |-> "none", pc |-> "open"] :
                     w \in 1..MaxWalletInputs, e \in 0..1 }
    /\ persisted = <<>>
    /\ registration = <<>>
    /\ waiting = <<>>

\* TestWollet::sign with its assertion left out: a count of zero returns as any other
TestWolletSignUnchecked(signer) ==
    /\ signing.pc = "open"
    /\ Len(signing.log) < MaxSignCalls
    /\ LET signed == SignerSign(PsetRt(signing.pset), signer)
       IN  signing' = [signing EXCEPT
                          !.pset = signed.pset,
                          !.log = Append(@, signer),
                          !.returned = << [signer |-> signer, count |-> signed.count,
                                           status |-> "ok"] >>,
                          !.error = "none"]
    /\ UNCHANGED <<desc, result, node_txs, store, next_txid, pset, details, request, before,
                   pc, last_error, persisted, registration, waiting>>

\* TestWollet::sign whose pset round trip keeps no signature of an earlier signer
TestWolletSignForgetful(signer) ==
    /\ signing.pc = "open"
    /\ Len(signing.log) < MaxSignCalls
    /\ LET signed == SignerSign(UnsignedPset(
                        Cardinality({ i \in 1..Len(signing.pset.ins) :
                                        signing.pset.ins[i].owner = "wallet" }),
                        Cardinality({ i \in 1..Len(signing.pset.ins) :
                                        signing.pset.ins[i].owner = "external" })), signer)
       IN  signing' = [signing EXCEPT
                          !.pset = signed.pset,
                          !.log = Append(@, signer),
                          !.returned = << [signer |-> signer, count |-> signed.count,
                                           status |-> IF signed.count > 0 THEN "ok"
                                                      ELSE "panicked"] >>,
                          !.error = "none",
                          !.pc = IF signed.count > 0 THEN "open" ELSE "panicked"]
    /\ UNCHANGED <<desc, result, node_txs, store, next_txid, pset, details, request, before,
                   pc, last_error, persisted, registration, waiting>>

\* TestWollet::sign: the pset goes through pset_rt, the signer signs it, and the
\* count it returns is asserted positive
TestWolletSign(signer) ==
    /\ signing.pc = "open"
    /\ Len(signing.log) < MaxSignCalls
    /\ LET signed == SignerSign(PsetRt(signing.pset), signer)
       IN  signing' = [signing EXCEPT
                          !.pset = signed.pset,
                          !.log = Append(@, signer),
                          !.returned = << [signer |-> signer, count |-> signed.count,
                                           status |-> IF signed.count > 0 THEN "ok"
                                                      ELSE "panicked"] >>,
                          !.error = "none",
                          !.pc = IF signed.count > 0 THEN "open" ELSE "panicked"]
    /\ UNCHANGED <<desc, result, node_txs, store, next_txid, pset, details, request, before,
                   pc, last_error, persisted, registration, waiting>>

\* TestWollet::send up to the broadcast: the pset goes through pset_rt and finalize
\* yields the transaction
TestWolletSend ==
    /\ signing.pc = "open"
    /\ Finalize(PsetRt(signing.pset)).tag = "Ok"
    /\ signing' = [signing EXCEPT
                      !.pset = PsetRt(@),
                      !.tx = << Finalize(PsetRt(signing.pset)).tx >>,
                      !.error = "none",
                      !.pc = "sent"]
    /\ UNCHANGED <<desc, result, node_txs, store, next_txid, pset, details, request, before,
                   pc, last_error, persisted, registration, waiting>>

\* finalize returning its error: there is no transaction to broadcast
TestWolletSendFails ==
    /\ signing.pc = "open"
    /\ Finalize(PsetRt(signing.pset)).tag = "Err"
    /\ signing' = [signing EXCEPT
                      !.pset = PsetRt(@),
                      !.error = Finalize(PsetRt(signing.pset)).error]
    /\ UNCHANGED <<desc, result, node_txs, store, next_txid, pset, details, request, before,
                   pc, last_error, persisted, registration, waiting>>

NextSign ==
    \/ \E s \in Signers : TestWolletSign(s)
    \/ TestWolletSend
    \/ TestWolletSendFails

SpecSign == InitSign /\ [][NextSign]_vars

----------------------------------------------------------------------------
(* Properties of signing and finalization (under SpecSign) *)

\* the keys of an input's script whose signer signed the pset, whenever and however often
KeysThatSigned(input) ==
    { SignerKey(signing.log[j]) : j \in 1..Len(signing.log) } \cap ScriptKeys(input)

\* the inputs short of their threshold of distinct keys
ShortInputs ==
    { i \in 1..Len(signing.pset.ins) :
        Cardinality(KeysThatSigned(signing.pset.ins[i]))
            < ScriptThreshold(signing.pset.ins[i]) }

\* C11: what an input carries is one signature per key of its script that signed,
\* whatever the order of the signers and however often each signed; finalize yields
\* a transaction only when every input carries signatures of at least its threshold
\* of distinct keys of the descriptor, and when some input carries fewer it fails
\* with IncompleteSignatures and there is no transaction to broadcast
C11_FinalizeNeedsThreshold ==
    /\ \A i \in 1..Len(signing.pset.ins) :
          CarriedKeys(signing.pset.ins[i]) = KeysThatSigned(signing.pset.ins[i])
    /\ signing.tx # <<>> =>
          /\ ShortInputs = {}
          /\ \A i \in 1..Len(signing.tx[1].ins) :
                Cardinality(signing.tx[1].ins[i].witness)
                    >= ScriptThreshold(signing.pset.ins[i])
    /\ signing.error = "IncompleteSignatures" =>
          /\ ShortInputs # {}
          /\ signing.tx = <<>>
          /\ signing.pc # "sent"
    /\ signing.pc = "sent" <=> signing.tx # <<>>

\* finalize failed on a 2-of-2 pset one signer signed twice, one input of which has
\* its signatures and another not
C11_Witness ==
    /\ signing.error = "IncompleteSignatures"
    /\ desc.k = 2
    /\ \E j, k \in 1..Len(signing.log) : j # k /\ signing.log[j] = signing.log[k]
    /\ \E i \in 1..Len(signing.pset.ins) : i \notin ShortInputs

\* finalize succeeded on a 2-of-2 pset the signers signed in the order s2, s1
C11_WitnessSuccess ==
    /\ signing.tx # <<>>
    /\ desc.k = 2
    /\ \E j \in 1..Len(signing.log) : \E k \in (j + 1)..Len(signing.log) :
          signing.log[j] = "s2" /\ signing.log[k] = "s1"

\* C12: a sign call that returns normally reports a strictly positive count of
\* signatures added or overwritten, the count being one per input the signer holds
\* a key of, whether or not it signed the pset before; a call that contributed no
\* signature ends in the failed assertion, and no transaction comes of that pset
C12_SignCountPositive ==
    signing.returned # <<>> =>
        LET r == signing.returned[1]
        IN  /\ r.status = "ok" => r.count > 0
            /\ r.count = Cardinality(SignableInputs(signing.pset, r.signer))
            /\ r.count = 0 <=> r.status = "panicked"
            /\ r.status = "panicked" <=> signing.pc = "panicked"
            /\ signing.pc = "panicked" => signing.tx = <<>>

\* a signer signed a pset it had signed before, and its call returned normally
C12_Witness ==
    /\ signing.returned # <<>>
    /\ signing.returned[1].status = "ok"
    /\ Len(signing.log) >= 2
    /\ \E j \in 1..(Len(signing.log) - 1) : signing.log[j] = signing.log[Len(signing.log)]

\* a signer without a key in the pset signed it: the count was zero and the call
\* ended in the failed assertion
C12_WitnessZero ==
    /\ signing.returned # <<>>
    /\ signing.returned[1].count = 0
    /\ signing.pc = "panicked"

----------------------------------------------------------------------------
(* Persistence of the scan state: Wollet::with_fs_persist and check_persistence *)

\* the wallets check_persistence loads from the directory, one after the other
PersistenceLoads == 2

\* the descriptors a TestWollet is made with
WalletDescriptors == { MultisigDesc(WalletSigners, t) : t \in 1..Len(WalletSigners) }

\* Display of the wallet's descriptor, as the sequence of its lexical pieces
DescriptorToString(d) ==
    <<"ct(slip77(", d.key.bytes, "),elwsh(multi(", d.k>>
    \o FlattenSeq([i \in 1..Len(d.pks) |-> <<",">> \o KeyToString(d.pks[i])])
    \o <<")))">>

\* str::parse::<WolletDescriptor>: <<>> stands for Err, <<d>> for Ok(d)
DescriptorParse(str) ==
    LET written == { d \in WalletDescriptors : DescriptorToString(d) = str }
    IN  IF written = {} THEN <<>> ELSE << CHOOSE d \in written : TRUE >>

RECURSIVE TxsInOrder(_)
\* the transactions of a set in txid order
TxsInOrder(S) ==
    IF S = {} THEN <<>>
    ELSE LET x == CHOOSE y \in S : \A z \in S : y.txid <= z.txid
         IN  <<x>> \o TxsInOrder(S \ {x})

\* the update a scan yields: the transactions the ledger did not have
UpdateOf(txs, chain) == [new_txs |-> MergeScan(txs, chain) \ txs]

\* an update as the persister writes it: under a key derived from the descriptor
EncodeUpdate(update, d) ==
    [key |-> DescriptorToString(d), txs |-> TxsInOrder(update.new_txs)]

\* an update as the persister reads it: <<>> when the descriptor is not the one it
\* was written under
DecodeUpdate(file, d) ==
    IF file.key = DescriptorToString(d)
    THEN << [new_txs |-> { file.txs[i] : i \in 1..Len(file.txs) }] >>
    ELSE <<>>

\* Wollet::with_fs_persist on a directory: the updates found there are applied in
\* order to an empty ledger; <<>> stands for Err
WithFsPersist(d, dir) ==
    IF \E i \in 1..Len(dir) : DecodeUpdate(dir[i], d) = <<>> THEN <<>>
    ELSE LET read == [i \in 1..Len(dir) |-> DecodeUpdate(dir[i], d)[1]]
         IN  << [store |-> UNION { read[i].new_txs : i \in 1..Len(read) },
                 updates |-> read] >>

InitPersist ==
    /\ desc \in WalletDescriptors
    /\ result = NotRun
    /\ node_txs = {}
    /\ store = {}
    /\ next_txid = 1
    /\ pset = <<>>
    /\ details = <<>>
    /\ request = <<>>
    /\ before = {}
    /\ pc = "idle"
    /\ last_error = "none"
    /\ signing = <<>>
    /\ persisted = [updates |-> <<>>, dir |-> <<>>, expected |-> <<>>, loads |-> <<>>]
    /\ registration = <<>>
    /\ waiting = <<>>

\* full_scan_with_electrum_client on the wallet with file persistence: the update is
\* applied to the ledger and written to the directory
FullScanPersisting ==
    /\ persisted.expected = <<>>
    /\ MergeScan(store, node_txs) # store
    /\ store' = MergeScan(store, node_txs)
    /\ persisted' = [persisted EXCEPT
                        !.updates = Append(@, UpdateOf(store, node_txs)),
                        !.dir = Append(@, EncodeUpdate(UpdateOf(store, node_txs), desc))]
    /\ UNCHANGED <<desc, result, node_txs, next_txid, pset, details, request, before, pc,
                   last_error, signing, registration, waiting>>

\* check_persistence up to its loop: the descriptor, the updates and the balance of
\* the wallet in memory are taken, and the wallet is given up for its directory
CheckPersistenceBegin ==
    /\ persisted.expected = <<>>
    /\ persisted' = [persisted EXCEPT
                        !.expected = << [descriptor |-> DescriptorToString(desc),
                                         updates |-> persisted.updates,
                                         balance |-> Balance(store)] >>]
    /\ UNCHANGED <<desc, result, node_txs, store, next_txid, pset, details, request,
                   before, pc, last_error, signing, registration, waiting>>

\* a round of the loop whose load takes the newest update out of the directory
CheckPersistenceLoadConsuming ==
    /\ persisted.expected # <<>>
    /\ Len(persisted.loads) < PersistenceLoads
    /\ LET d == DescriptorParse(persisted.expected[1].descriptor)[1]
           wollet == WithFsPersist(d, persisted.dir)[1]
       IN  persisted' = [persisted EXCEPT
                            !.dir = SubSeq(@, 1, Len(@) - 1),
                            !.loads = Append(@, [balance |-> Balance(wollet.store),
                                                 updates |-> wollet.updates,
                                                 dir |-> SubSeq(persisted.dir, 1,
                                                                Len(persisted.dir) - 1)])]
    /\ UNCHANGED <<desc, result, node_txs, store, next_txid, pset, details, request,
                   before, pc, last_error, signing, registration, waiting>>

\* a round of the loop of check_persistence: a wallet is made from the parsed
\* descriptor and the directory, and its balance and updates are read
CheckPersistenceLoad ==
    /\ persisted.expected # <<>>
    /\ Len(persisted.loads) < PersistenceLoads
    /\ LET d == DescriptorParse(persisted.expected[1].descriptor)[1]
           wollet == WithFsPersist(d, persisted.dir)[1]
       IN  persisted' = [persisted EXCEPT
                            !.loads = Append(@, [balance |-> Balance(wollet.store),
                                                 updates |-> wollet.updates,
                                                 dir |-> persisted.dir])]
    /\ UNCHANGED <<desc, result, node_txs, store, next_txid, pset, details, request,
                   before, pc, last_error, signing, registration, waiting>>

NextPersist ==
    \/ \E a \in {PolicyAsset, NodeAsset} : \E s \in FundSatoshi(a) : \E u \in BOOLEAN :
          NodeSendToAddress(s, a, u)
    \/ FullScanPersisting
    \/ CheckPersistenceBegin
    \/ CheckPersistenceLoad

SpecPersist == InitPersist /\ [][NextPersist]_vars

----------------------------------------------------------------------------
(* Properties of the persistence (under SpecPersist) *)

----------------------------------------------------------------------------
(* Registration of a multisig with the Jade: RegisterMultisigParams *)

\* the length the comment on multisig_name allows
MaxMultisigNameLen == 16

\* the longest name a caller tries
LongestName == 17

\* crate::Network
Networks == {"Liquid", "TestnetLiquid", "LocaltestLiquid"}

\* the names a caller may give: every length up to LongestName
MultisigNames == { [i \in 1..n |-> "a"] : n \in 0..LongestName }

\* the descriptors of the unit test: sortedmulti and multi of a/* and b/*, t of 2
UnitTestDescriptors ==
    { [key |-> [kind |-> "Slip77", bytes |-> [i \in 1..Slip77Len |-> 156]],
       shape |-> sh, k |-> t,
       pks |-> << XPub(NoOrigin, "tpubA", <<>>, "Unhardened"),
                  XPub(NoOrigin, "tpubB", <<>>, "Unhardened") >>] :
        sh \in { [outer |-> "Wsh", inner |-> "SortedMulti", node |-> "-"],
                 [outer |-> "Wsh", inner |-> "Ms", node |-> "Multi"] },
        t \in 1..2 }

\* struct RegisterMultisigParams: three public fields, any String for the name
RegisterMultisigParams(network, multisig_name, descriptor) ==
    [network |-> network, multisig_name |-> multisig_name, descriptor |-> descriptor]

\* a String as JSON text: its characters between quotes
StringToJson(s) == <<"\"">> \o s \o <<"\"">>

\* JSON text as a String: <<>> stands for Err, <<s>> for Ok(s)
StringFromJson(text) ==
    IF Len(text) >= 2 /\ text[1] = "\"" /\ text[Len(text)] = "\""
    THEN << SubSeq(text, 2, Len(text) - 1) >>
    ELSE <<>>

\* #[derive(Serialize)] of RegisterMultisigParams: field by field
SerializeParams(params) ==
    [network |-> params.network,
     multisig_name |-> StringToJson(params.multisig_name),
     descriptor |-> params.descriptor]

\* #[derive(Deserialize)] of RegisterMultisigParams: field by field, no check of the
\* name's length; <<>> stands for Err
DeserializeParams(json) ==
    IF StringFromJson(json.multisig_name) = <<>> THEN <<>>
    ELSE << RegisterMultisigParams(json.network, StringFromJson(json.multisig_name)[1],
                                   json.descriptor) >>

InitRegister ==
    /\ desc \in UnitTestDescriptors
    /\ result = NotRun
    /\ node_txs = {}
    /\ store = {}
    /\ next_txid = 1
    /\ pset = <<>>
    /\ details = <<>>
    /\ request = <<>>
    /\ before = {}
    /\ pc = "idle"
    /\ last_error = "none"
    /\ signing = <<>>
    /\ persisted = <<>>
    /\ registration \in { [network |-> n, multisig_name |-> name, params |-> <<>>,
                           sent |-> <<>>, received |-> <<>>] :
                          n \in Networks, name \in MultisigNames }
    /\ waiting = <<>>

\* RegisterMultisigParams { network, multisig_name, descriptor } of a converted
\* descriptor
MakeParams ==
    /\ result.tag = "Ok"
    /\ registration.params = <<>>
    /\ registration' = [registration EXCEPT
                           !.params = << RegisterMultisigParams(registration.network,
                                             registration.multisig_name, result) >>]
    /\ UNCHANGED <<desc, result, node_txs, store, next_txid, pset, details, request,
                   before, pc, last_error, signing, persisted, waiting>>

\* the params serialised into the request for the Jade
SendRequest ==
    /\ registration.params # <<>>
    /\ registration.sent = <<>>
    /\ registration' = [registration EXCEPT
                           !.sent = << SerializeParams(registration.params[1]) >>]
    /\ UNCHANGED <<desc, result, node_txs, store, next_txid, pset, details, request,
                   before, pc, last_error, signing, persisted, waiting>>

\* serde_json::from_str::<Request<RegisterMultisigParams>> of a request
ParseRequest ==
    /\ registration.sent # <<>>
    /\ registration.received = <<>>
    /\ registration' = [registration EXCEPT
                           !.received = DeserializeParams(registration.sent[1])]
    /\ UNCHANGED <<desc, result, node_txs, store, next_txid, pset, details, request,
                   before, pc, last_error, signing, persisted, waiting>>

NextRegister ==
    \/ Convert
    \/ MakeParams
    \/ SendRequest
    \/ ParseRequest

SpecRegister == InitRegister /\ [][NextRegister]_vars

----------------------------------------------------------------------------
(* Properties of the registration (under SpecRegister) *)

\* C14: the multisig_name of every RegisterMultisigParams, as made, as sent and as
\* parsed, has at most 16 characters
C14_NameAtMost16 ==
    /\ registration.params # <<>> =>
          Len(registration.params[1].multisig_name) <= MaxMultisigNameLen
    /\ registration.sent # <<>> =>
          Len(StringFromJson(registration.sent[1].multisig_name)[1]) <= MaxMultisigNameLen
    /\ registration.received # <<>> =>
          Len(registration.received[1].multisig_name) <= MaxMultisigNameLen

\* the name a request carries is the name the caller gave, of whatever length
C14_NameIsKept ==
    /\ registration.params # <<>> =>
          registration.params[1].multisig_name = registration.multisig_name
    /\ registration.received # <<>> =>
          registration.received[1] = registration.params[1]

----------------------------------------------------------------------------
(* The wait loops of the harness: with_temp_dir, wait_for_tx, wait_height *)

\* the rounds a wait loop makes before it gives up
WaitAttempts == 120

\* the height with_temp_dir waits for
FirstHeight == 101

\* the highest block the node generates
MaxTip == 103

\* the heights the node may be at when a wait begins
StartTips == (FirstHeight - 1)..FirstHeight

\* the heights a test may wait for
TargetHeights == FirstHeight..MaxTip

\* one wait: the loop, what it waits for, the rounds made, how it ended, the node's
\* tip and whether the node lists the awaited transaction, and the wallet's tip and
\* whether the wallet lists it; `observed` is what the last round looked at, and
\* `reached` records that the node's tip came to stand at the target between two
\* rounds of wait_height
Wait(loop, target, tip) ==
    [loop |-> loop, target |-> target, attempts |-> 0, pc |-> "polling",
     chain_tip |-> tip, chain_has_tx |-> FALSE,
     wallet_tip |-> tip, wallet_has_tx |-> FALSE,
     observed |-> <<>>, reached |-> FALSE]

InitWait ==
    /\ desc \in WalletDescriptors
    /\ result = NotRun
    /\ node_txs = {}
    /\ store = {}
    /\ next_txid = 1
    /\ pset = <<>>
    /\ details = <<>>
    /\ request = <<>>
    /\ before = {}
    /\ pc = "idle"
    /\ last_error = "none"
    /\ signing = <<>>
    /\ persisted = <<>>
    /\ registration = <<>>
    /\ waiting \in { Wait("with_temp_dir", FirstHeight, t) : t \in StartTips }
              \cup { Wait("wait_for_tx", "txid", t) : t \in StartTips }
              \cup { Wait("wait_height", h, t) : h \in TargetHeights, t \in StartTips }

\* the node generates a block while the harness sleeps or scans
NodeGenerates ==
    /\ waiting.chain_tip < MaxTip
    /\ waiting' = [waiting EXCEPT
                      !.chain_tip = @ + 1,
                      !.reached = @ \/ ( /\ waiting.loop = "wait_height"
                                         /\ waiting.pc = "polling"
                                         /\ waiting.attempts \in 1..(WaitAttempts - 1)
                                         /\ waiting.chain_tip + 1 = waiting.target )]
    /\ UNCHANGED <<desc, result, node_txs, store, next_txid, pset, details, request,
                   before, pc, last_error, signing, persisted, registration>>

\* the broadcast transaction comes to be listed by the node
NodeListsTx ==
    /\ waiting.loop = "wait_for_tx"
    /\ ~waiting.chain_has_tx
    /\ waiting' = [waiting EXCEPT !.chain_has_tx = TRUE]
    /\ UNCHANGED <<desc, result, node_txs, store, next_txid, pset, details, request,
                   before, pc, last_error, signing, persisted, registration>>

\* with_temp_dir: a round of the loop that does not count itself
InitialWaitRoundUncounted ==
    /\ waiting.loop = "with_temp_dir"
    /\ waiting.pc = "polling"
    /\ waiting.attempts < WaitAttempts
    /\ waiting' = [waiting EXCEPT
                      !.observed = << waiting.chain_tip >>,
                      !.pc = IF waiting.chain_tip >= FirstHeight THEN "returned" ELSE @,
                      !.wallet_tip = IF waiting.chain_tip >= FirstHeight
                                     THEN waiting.chain_tip ELSE @]
    /\ UNCHANGED <<desc, result, node_txs, store, next_txid, pset, details, request,
                   before, pc, last_error, signing, persisted, registration>>

\* with_temp_dir: a round of its loop: i is positive and is counted down, the node's
\* tip is asked for, and at 101 or above the loop is left for the scan and the return
InitialWaitRound ==
    /\ waiting.loop = "with_temp_dir"
    /\ waiting.pc = "polling"
    /\ waiting.attempts < WaitAttempts
    /\ waiting' = [waiting EXCEPT
                      !.attempts = @ + 1,
                      !.observed = << waiting.chain_tip >>,
                      !.pc = IF waiting.chain_tip >= FirstHeight THEN "returned" ELSE @,
                      !.wallet_tip = IF waiting.chain_tip >= FirstHeight
                                     THEN waiting.chain_tip ELSE @]
    /\ UNCHANGED <<desc, result, node_txs, store, next_txid, pset, details, request,
                   before, pc, last_error, signing, persisted, registration>>

\* with_temp_dir: assert!(i > 0) failing once the rounds are used up
InitialWaitFails ==
    /\ waiting.loop = "with_temp_dir"
    /\ waiting.pc = "polling"
    /\ waiting.attempts = WaitAttempts
    /\ waiting' = [waiting EXCEPT !.pc = "failed"]
    /\ UNCHANGED <<desc, result, node_txs, store, next_txid, pset, details, request,
                   before, pc, last_error, signing, persisted, registration>>

\* wait_for_tx: a round of its loop: scan, then return if the wallet lists the txid
WaitForTxRound ==
    /\ waiting.loop = "wait_for_tx"
    /\ waiting.pc = "polling"
    /\ waiting.attempts < WaitAttempts
    /\ waiting' = [waiting EXCEPT
                      !.attempts = @ + 1,
                      !.wallet_tip = waiting.chain_tip,
                      !.wallet_has_tx = waiting.chain_has_tx,
                      !.observed = << waiting.chain_has_tx >>,
                      !.pc = IF waiting.chain_has_tx THEN "returned" ELSE @]
    /\ UNCHANGED <<desc, result, node_txs, store, next_txid, pset, details, request,
                   before, pc, last_error, signing, persisted, registration>>

\* wait_for_tx: the panic after the last round
WaitForTxFails ==
    /\ waiting.loop = "wait_for_tx"
    /\ waiting.pc = "polling"
    /\ waiting.attempts = WaitAttempts
    /\ waiting' = [waiting EXCEPT !.pc = "failed"]
    /\ UNCHANGED <<desc, result, node_txs, store, next_txid, pset, details, request,
                   before, pc, last_error, signing, persisted, registration>>

\* wait_height: a round that returns at the target height or above it
WaitHeightRoundAtLeast ==
    /\ waiting.loop = "wait_height"
    /\ waiting.pc = "polling"
    /\ waiting.attempts < WaitAttempts
    /\ waiting' = [waiting EXCEPT
                      !.attempts = @ + 1,
                      !.wallet_tip = waiting.chain_tip,
                      !.observed = << waiting.chain_tip >>,
                      !.pc = IF waiting.chain_tip >= waiting.target THEN "returned" ELSE @]
    /\ UNCHANGED <<desc, result, node_txs, store, next_txid, pset, details, request,
                   before, pc, last_error, signing, persisted, registration>>

\* wait_height: a round of its loop: scan, then return if the wallet's tip is the
\* target height
WaitHeightRound ==
    /\ waiting.loop = "wait_height"
    /\ waiting.pc = "polling"
    /\ waiting.attempts < WaitAttempts
    /\ waiting' = [waiting EXCEPT
                      !.attempts = @ + 1,
                      !.wallet_tip = waiting.chain_tip,
                      !.observed = << waiting.chain_tip >>,
                      !.pc = IF waiting.chain_tip = waiting.target THEN "returned" ELSE @]
    /\ UNCHANGED <<desc, result, node_txs, store, next_txid, pset, details, request,
                   before, pc, last_error, signing, persisted, registration>>

\* wait_height: the panic after the last round
WaitHeightFails ==
    /\ waiting.loop = "wait_height"
    /\ waiting.pc = "polling"
    /\ waiting.attempts = WaitAttempts
    /\ waiting' = [waiting EXCEPT !.pc = "failed"]
    /\ UNCHANGED <<desc, result, node_txs, store, next_txid, pset, details, request,
                   before, pc, last_error, signing, persisted, registration>>

\* the steps of the harness thread
WaitStep ==
    \/ InitialWaitRound
    \/ InitialWaitFails
    \/ WaitForTxRound
    \/ WaitForTxFails
    \/ WaitHeightRound
    \/ WaitHeightFails

NextWait ==
    \/ NodeGenerates
    \/ NodeListsTx
    \/ WaitStep

SpecWait == InitWait /\ [][NextWait]_vars

\* the harness thread is never held back for good: its sleep is 500 ms and it is
\* the only thread of the test
SpecWaitFair == InitWait /\ [][NextWait]_vars /\ WF_vars(WaitStep)

----------------------------------------------------------------------------
(* Properties of the wait loops (under SpecWait and SpecWaitFair) *)

\* what a loop waits for, of what its last round looked at
Met ==
    /\ waiting.observed # <<>>
    /\ CASE waiting.loop = "with_temp_dir" -> waiting.observed[1] >= FirstHeight
         [] waiting.loop = "wait_for_tx" -> waiting.observed[1] = TRUE
         [] OTHER -> waiting.observed[1] = waiting.target

\* a loop makes at most 120 rounds; it goes on only while no round has found what it
\* waits for, returns on the round that finds it, and fails only after 120 rounds
\* none of which found it
C15_RoundsBounded ==
    /\ waiting.attempts \in 0..WaitAttempts
    /\ waiting.observed = <<>> <=> waiting.attempts = 0
    /\ waiting.pc = "polling" => ~Met
    /\ waiting.pc = "returned" => Met
    /\ waiting.pc = "failed" => waiting.attempts = WaitAttempts /\ ~Met

\* C15: each wait loop (with_temp_dir's wait for height 101, wait_for_tx,
\* wait_height) ends: it makes at most 120 rounds, returns on the first round that
\* finds its target, and fails instead of going on when the 120th has not found it
C15_WaitLoopsEnd ==
    /\ []C15_RoundsBounded
    /\ <>(waiting.pc \in {"returned", "failed"})

\* wait_for_tx gave up after 120 rounds
C15_Witness ==
    /\ waiting.loop = "wait_for_tx"
    /\ waiting.pc = "failed"
    /\ waiting.attempts = WaitAttempts

\* with_temp_dir's loop was left on its second round
C15_WitnessReturned ==
    /\ waiting.loop = "with_temp_dir"
    /\ waiting.pc = "returned"
    /\ waiting.attempts = 2

----------------------------------------------------------------------------
(* Draining the policy asset: drain_lbtc_wallet, drain_lbtc_to and send_all_btc *)

\* the inputs of a drain: every utxo of the policy asset
DrainSelection(txs) == { o \in Utxos(txs) : o.asset = PolicyAsset }

\* fee rate times estimated weight: one unit per input, the recipient's output and
\* the fee output
DrainFee(fee_rate, sel) == fee_rate * (Cardinality(sel) + 2)

\* the pset of a drain: all of the selection but the fee goes to the one address
DrainPset(to, fee_rate, txs, txid) ==
    LET sel == DrainSelection(txs)
        order == SeqOfSet(sel)
        fee == DrainFee(fee_rate, sel)
    IN  [txid |-> txid,
         ins |-> [i \in 1..Len(order) |->
                    [prev |-> order[i].outpoint,
                     witness_utxo |-> [asset |-> order[i].asset, value |-> order[i].value],
                     issuance |-> <<>>]],
         outs |-> << TxOut(to, PolicyAsset, SumAsset(sel, PolicyAsset) - fee, to = "wallet"),
                     TxOut("fee", PolicyAsset, fee, FALSE) >>,
         sigs |-> {}]

\* WolletTxBuilder::finish of a drain over the ledger `txs`: the empty set when the
\* policy asset held does not exceed the fee (InsufficientFunds)
FinishDrain(to, fee_rate, txs, txid) ==
    IF SumAsset(DrainSelection(txs), PolicyAsset) > DrainFee(fee_rate, DrainSelection(txs))
    THEN { DrainPset(to, fee_rate, txs, txid) }
    ELSE {}

\* the addresses send_all_btc may be given: one of the node, one of the wallet
DrainAddresses == {"external", "wallet"}

\* TestWollet::fund: the node pays one output to an address of the wallet, and
\* wait_for_tx scans until the wallet lists the transaction
Fund(satoshi, asset) ==
    /\ pc = "idle"
    /\ next_txid <= MaxTxs
    /\ LET tx == [txid |-> next_txid, ins |-> <<>>,
                  outs |-> << TxOut("wallet", asset, satoshi, TRUE) >>]
       IN  /\ node_txs' = node_txs \cup {tx}
           /\ store' = MergeScan(store, node_txs \cup {tx})
    /\ next_txid' = next_txid + 1
    /\ UNCHANGED <<desc, result, pset, details, request, before, pc, last_error,
                   signing, persisted, registration, waiting>>

\* send_all_btc whose builder is given an address of the wallet whatever was asked
DrainBuildToSelf(to, fee_rate) ==
    /\ pc = "idle"
    /\ next_txid <= MaxTxs
    /\ \E p \in FinishDrain("wallet", fee_rate, store, next_txid) :
          /\ pset' = <<p>>
          /\ details' = <<GetDetails(p)>>
    /\ request' = << Request("drain", to, PolicyAsset, 0, 0, <<>>, fee_rate) >>
    /\ before' = store
    /\ pc' = "built"
    /\ next_txid' = next_txid + 1
    /\ last_error' = "none"
    /\ UNCHANGED <<desc, result, node_txs, store, signing, persisted, registration,
                   waiting>>

\* send_all_btc up to its signing: balance_before is read, the drain is built and
\* analysed
DrainBuild(to, fee_rate) ==
    /\ pc = "idle"
    /\ next_txid <= MaxTxs
    /\ \E p \in FinishDrain(to, fee_rate, store, next_txid) :
          /\ pset' = <<p>>
          /\ details' = <<GetDetails(p)>>
    /\ request' = << Request("drain", to, PolicyAsset, 0, 0, <<>>, fee_rate) >>
    /\ before' = store
    /\ pc' = "built"
    /\ next_txid' = next_txid + 1
    /\ last_error' = "none"
    /\ UNCHANGED <<desc, result, node_txs, store, signing, persisted, registration,
                   waiting>>

\* finish() of the drain returning an error
DrainBuildFails(to, fee_rate) ==
    /\ pc = "idle"
    /\ FinishDrain(to, fee_rate, store, next_txid) = {}
    /\ last_error' = "InsufficientFunds"
    /\ UNCHANGED <<desc, result, node_txs, store, next_txid, pset, details, request,
                   before, pc, signing, persisted, registration, waiting>>

NextDrain ==
    \/ \E a \in {PolicyAsset, NodeAsset} : \E s \in FundSatoshi(a) : Fund(s, a)
    \/ \E to \in DrainAddresses : \E r \in FeeRates : DrainBuild(to, r)
    \/ \E to \in DrainAddresses : \E r \in FeeRates : DrainBuildFails(to, r)
    \/ \E i \in 1..Len(WalletSigners) : Sign(WalletSigners[i])
    \/ Send
    \/ SendFails
    \/ Scan
    \/ Return

SpecDrain == Init /\ [][NextDrain]_vars

----------------------------------------------------------------------------
(* Properties of the drain (under SpecDrain) *)

C16_WitnessOwnAddress ==
    /\ pc = "confirmed"
    /\ request[1].op = "drain"
    /\ request[1].to = "wallet"

\* C17 in full: wait_height(h) returns only with the wallet's scanned tip at
\* exactly h, and a wait during which the node's tip came to stand at h between two
\* rounds does not end in failure
C17_HeightNeverMissed ==
    waiting.loop = "wait_height" =>
        /\ waiting.pc = "returned" => waiting.wallet_tip = waiting.target
        /\ waiting.pc = "failed" => ~waiting.reached

\* C17: wait_height(h) returns only with the wallet's scanned tip at exactly h, on
\* the first of its rounds whose scan finds the tip there; as long as it polls, and
\* when it fails after the 120th round, no scan has found the tip at h, whether or
\* not the node's tip stood at h between two rounds
C17_ReturnsAtExactHeight ==
    waiting.loop = "wait_height" =>
        /\ waiting.pc = "returned" =>
              /\ waiting.wallet_tip = waiting.target
              /\ waiting.chain_tip >= waiting.target
        /\ (waiting.pc = "polling" /\ waiting.attempts >= 1) =>
              waiting.wallet_tip # waiting.target
        /\ waiting.pc = "failed" =>
              /\ waiting.attempts = WaitAttempts
              /\ waiting.wallet_tip # waiting.target
        /\ waiting.reached => waiting.chain_tip >= waiting.target

\* wait_height returned on its third round, the tip having come to the target
\* between two rounds
C17_Witness ==
    /\ waiting.loop = "wait_height"
    /\ waiting.pc = "returned"
    /\ waiting.attempts = 3
    /\ waiting.reached

\* wait_height failed although the node's tip stood at the target between two rounds
C17_WitnessMissed ==
    /\ waiting.loop = "wait_height"
    /\ waiting.pc = "failed"
    /\ waiting.reached
    /\ waiting.wallet_tip = waiting.target + 1

====
